---------------------------- MODULE Spec2Model ----------------------------
(***************************************************************************)
(* A model of the Coffee terminal assistant (coffee/main.py and            *)
(* coffee/context_manager.py): the reply parser, the context store, the    *)
(* plan executor, the troubleshoot loop and the interactive shell.         *)
(*                                                                         *)
(* Texts are sequences of tokens.  A token is a record [t, k, v]:          *)
(*   t = "lbrace", "rbrace"   a brace character, { or }                    *)
(*   t = "fence_json"    an opening fence labelled json (lower case)       *)
(*   t = "fence"         a bare fence (three backquotes)                   *)
(*   t = "w"             a run of prose, k its wording                     *)
(*   t = "kv"            one member of a JSON object, "k": v               *)
(* Whitespace between tokens is implicit.  The value v of a member is a    *)
(* sequence of strings: the chunks of a command line, the chunks of a      *)
(* path, a truth value, or the names of the steps of a plan (StepTable).   *)
(* A member stands inside a pair of braces and its own text ends with a    *)
(* string, a literal or "]"; so the braces nested in its value change      *)
(* nothing in what the regular expressions below match.                    *)
(***************************************************************************)
EXTENDS Naturals, Integers, Sequences, FiniteSets, TLC

VARIABLES
    ptext,        \* SpecParse: the reply text handed to the parser
    ppayload,     \* SpecParse: the JSON object the reply was built around
    presult,      \* SpecParse: what _extract_json_from_text returned
    pphase,       \* SpecParse: "reply" before the call, "parsed" after it
    CONTEXT_FILE,     \* context_manager.py: ~/.coffee_context.json
    DEFAULT_CONTEXT,  \* context_manager.py: the module-level default dict
    appended,     \* history: every entry the store operations appended
    lastOp,       \* history: the last store operation and what it did
    pc,           \* where coffee_shell stands (what it is blocked on)
    CURRENT_WORKING_DIRECTORY,  \* main.py: the session's working directory
    fs,           \* the file system: path -> "dir" or a file's content
    user_query,   \* the line of this turn, as typed
    ai_out,       \* the reply text process_ai_response is working on
    cmd,          \* the command waiting for its confirmation or its run
    steps,        \* execute_plan: the steps of the plan
    idx,          \* execute_plan: the 1-based index of the next step
    rounds,       \* troubleshoot rounds started in this turn
    turns,        \* lines read so far
    trace         \* history: what this turn has done so far, in order

parseVars == <<ptext, ppayload, presult, pphase>>
storeVars == <<CONTEXT_FILE, DEFAULT_CONTEXT, appended, lastOp>>
shellVars == <<pc, CURRENT_WORKING_DIRECTORY, fs, user_query, ai_out, cmd,
               steps, idx, rounds, turns, trace>>
vars == <<parseVars, storeVars, shellVars>>

---------------------------------------------------------------------------
(* Tokens and texts *)

Tok(t, k, v) == [t |-> t, k |-> k, v |-> v]
LB == Tok("lbrace", "", <<>>)
RB == Tok("rbrace", "", <<>>)
FenceJson == Tok("fence_json", "", <<>>)
Fence == Tok("fence", "", <<>>)
W(word) == Tok("w", word, <<>>)
KV(key, val) == Tok("kv", key, val)

\* Both fences begin with three backquotes: the regex tail \s*``` accepts either.
IsFence(tok) == tok.t \in {"fence", "fence_json"}

\* Python's None, "no object"; an empty object is <<LB, RB>>.
None == <<>>

\* The steps a plan member can name: the decoded JSON object of each step.
NoPath == <<"None">>
StepTable(s) ==
    CASE s = "ls"     -> [kind |-> "command", cmd |-> <<"ls">>, path |-> NoPath, content |-> ""]
      [] s = "cd_b"   -> [kind |-> "command", cmd |-> <<"cd ", "b">>, path |-> NoPath, content |-> ""]
      [] s = "w1"     -> [kind |-> "write_file", cmd |-> <<>>, path |-> <<"b", "a">>, content |-> "c1"]
      [] s = "w2"     -> [kind |-> "write_file", cmd |-> <<>>, path |-> <<"b", "a">>, content |-> "c2"]
      [] s = "wb"     -> [kind |-> "write_file", cmd |-> <<>>, path |-> <<"b">>, content |-> "c1"]
      [] s = "r"      -> [kind |-> "read_file", cmd |-> <<>>, path |-> <<"b", "a">>, content |-> ""]
      [] s = "7"      -> [kind |-> "nonobject", cmd |-> <<>>, path |-> NoPath, content |-> ""]
      [] OTHER        -> [kind |-> "other", cmd |-> <<>>, path |-> NoPath, content |-> ""]

\* json.loads(text) succeeds, in this token universe, exactly on: LB members RB.
JsonLoadsOk(text) ==
    /\ Len(text) >= 2
    /\ text[1] = LB
    /\ text[Len(text)] = RB
    /\ \A i \in 2..(Len(text) - 1) : text[i].t = "kv"

\* key in obj / obj.get(key): a repeated key keeps its last value.
HasKey(obj, key) == \E i \in 1..Len(obj) : obj[i].t = "kv" /\ obj[i].k = key
Get(obj, key) ==
    LET hits == {i \in 1..Len(obj) : obj[i].t = "kv" /\ obj[i].k = key}
    IN  obj[CHOOSE i \in hits : \A j \in hits : j <= i].v

Min(S) == CHOOSE x \in S : \A y \in S : x <= y
Max(S) == CHOOSE x \in S : \A y \in S : y <= x

\* re.search(r'```json\s*(\{[\s\S]*?\})\s*```', text, re.IGNORECASE).group(1):
\* the leftmost labelled fence directly followed by LB from which some RB
\* directly followed by a fence can be reached; the shortest such span.
FencedStarts(text) ==
    {i \in 1..Len(text) :
        /\ text[i] = FenceJson
        /\ i + 1 <= Len(text) /\ text[i + 1] = LB
        /\ \E j \in (i + 2)..(Len(text) - 1) : text[j] = RB /\ IsFence(text[j + 1])}
FencedMatch(text) ==
    IF FencedStarts(text) = {} THEN None
    ELSE LET i == Min(FencedStarts(text))
             j == Min({j \in (i + 2)..(Len(text) - 1) :
                          text[j] = RB /\ IsFence(text[j + 1])})
         IN  SubSeq(text, i + 1, j)

\* re.search(r'(\{[\s\S]*\})', text).group(1): first LB to last RB (greedy).
GreedyMatch(text) ==
    LET opens == {i \in 1..Len(text) : text[i] = LB}
        closes == {j \in 1..Len(text) : text[j] = RB}
    IN  IF opens = {} \/ closes = {} \/ Max(closes) < Min(opens) THEN None
        ELSE SubSeq(text, Min(opens), Max(closes))

\* main.py _extract_json_from_text: the JSON text that parsed, or None.
_extract_json_from_text(text) ==
    IF text = <<>> THEN None
    ELSE IF JsonLoadsOk(text) THEN text
    ELSE IF FencedMatch(text) # None /\ JsonLoadsOk(FencedMatch(text))
         THEN FencedMatch(text)
    ELSE IF GreedyMatch(text) # None /\ JsonLoadsOk(GreedyMatch(text))
         THEN GreedyMatch(text)
    ELSE None

\* The characters "command" (in quotes) occur inside the token: a command
\* member, a plan member with a command step, or prose quoting the word.
QuotesCommand(tok) ==
    \/ tok.t = "kv" /\ tok.k = "command"
    \/ tok.t = "kv" /\ tok.k = "plan"
          /\ \E i \in 1..Len(tok.v) : StepTable(tok.v[i]).kind = "command"
    \/ tok.t = "w" /\ tok.k = "quoted_command"

\* context_manager.py is_json_command
is_json_command(content) ==
    IF JsonLoadsOk(content) THEN HasKey(content, "command")
    ELSE \/ \E i \in 1..Len(content) :       \* ```json\s*(\{.*?\})\s*```
               /\ content[i] = FenceJson
               /\ i + 1 <= Len(content) /\ content[i + 1] = LB
               /\ \E j \in (i + 2)..(Len(content) - 1) :
                      content[j] = RB /\ IsFence(content[j + 1])
         \/ \E i \in 1..Len(content) :       \* ```\s*(\{.*?\})\s*```
               /\ content[i] = Fence
               /\ i + 1 <= Len(content) /\ content[i + 1] = LB
               /\ \E j \in (i + 2)..(Len(content) - 1) :
                      content[j] = RB /\ IsFence(content[j + 1])
         \/ \E i, m, j \in 1..Len(content) : \* (\{[\s\S]*?"command"[\s\S]*?\})
               /\ i < m /\ m < j
               /\ content[i] = LB /\ QuotesCommand(content[m]) /\ content[j] = RB

---------------------------------------------------------------------------
(* The context store, context_manager.py.  CONTEXT_FILE is the file:       *)
(* missing, unparseable ("garbage") or a record holding the keys in `has`. *)
(* DEFAULT_CONTEXT is the module-level dict; DEFAULT_CONTEXT.copy() is a   *)
(* shallow copy, so the dict load_context returns can share its two lists  *)
(* with DEFAULT_CONTEXT, and an append through it changes them too.        *)

ChatCap == 10
CmdCap == 5

FileRecord(messages, chat_history) ==
    [st |-> "record", has |-> {"messages", "chat_history"},
     messages |-> messages, chat_history |-> chat_history]
MissingFile ==
    [st |-> "missing", has |-> {}, messages |-> <<>>, chat_history |-> <<>>]
GarbageFile ==
    [st |-> "garbage", has |-> {}, messages |-> <<>>, chat_history |-> <<>>]
\* Valid JSON that is not an object: a list, a number, a string.
NonRecordFile ==
    [st |-> "nonrecord", has |-> {}, messages |-> <<>>, chat_history |-> <<>>]

\* lst[-n:]
KeepLast(lst, n) ==
    IF Len(lst) <= n THEN lst ELSE SubSeq(lst, Len(lst) - n + 1, Len(lst))
\* lst[:n]
KeepFirst(lst, n) ==
    IF Len(lst) <= n THEN lst ELSE SubSeq(lst, 1, n)

\* load_context: the dict returned, and which of its lists are the very
\* list objects of DEFAULT_CONTEXT (sharedM, sharedC).  On a file that holds
\* JSON other than an object, `k not in data` / `data[k] = v` raise TypeError,
\* which load_context does not catch (raised).
load_context(file, default) ==
    IF file.st = "nonrecord"
    THEN [messages |-> <<>>, chat_history |-> <<>>,
          sharedM |-> FALSE, sharedC |-> FALSE, raised |-> TRUE]
    ELSE IF file.st # "record"
    THEN [messages |-> default.messages, chat_history |-> default.chat_history,
          sharedM |-> TRUE, sharedC |-> TRUE, raised |-> FALSE]
    ELSE [messages |-> IF "messages" \in file.has
                       THEN file.messages ELSE default.messages,
          chat_history |-> IF "chat_history" \in file.has
                           THEN file.chat_history ELSE default.chat_history,
          sharedM |-> "messages" \notin file.has,
          sharedC |-> "chat_history" \notin file.has,
          raised |-> FALSE]

\* save_context: json.dump of the whole dict, both keys.
save_context(context) == FileRecord(context.messages, context.chat_history)

\* context["chat_history"][-10:] and context["messages"][-5:]
TrimChatHead(lst) == KeepFirst(lst, ChatCap)
TrimChat(lst) == KeepLast(lst, ChatCap)
TrimMessagesHead(lst) == KeepFirst(lst, CmdCap)
TrimMessages(lst) == KeepLast(lst, CmdCap)

\* add_message: the store [file, default] after the call.
add_message(store, role, content) ==
    IF is_json_command(content) THEN store
    ELSE IF load_context(store.file, store.default).raised THEN store
    ELSE LET context == load_context(store.file, store.default)
             grown == Append(context.chat_history,
                             [role |-> role, content |-> content])
         IN  [file |-> save_context([messages |-> context.messages,
                                      chat_history |-> TrimChat(grown)]),
              default |-> IF context.sharedC
                          THEN [store.default EXCEPT !.chat_history = grown]
                          ELSE store.default]

\* add_system_command (the timestamp is left out).
add_system_command(store, query, command_data) ==
    IF load_context(store.file, store.default).raised THEN store
    ELSE LET context == load_context(store.file, store.default)
             grown == Append(context.messages,
                             [user_query |-> query,
                              command |-> command_data.command,
                              explanation |-> command_data.explanation])
         IN  [file |-> save_context([messages |-> TrimMessages(grown),
                                      chat_history |-> context.chat_history]),
              default |-> IF context.sharedM
                          THEN [store.default EXCEPT !.messages = grown]
                          ELSE store.default]

\* get_messages / get_chat_history
get_messages(store) == load_context(store.file, store.default).chat_history
\* get_recent_commands
get_recent_commands(store) == load_context(store.file, store.default).messages

\* clear_messages: save_context(DEFAULT_CONTEXT.copy())
clear_messages(store) ==
    [file |-> save_context(store.default), default |-> store.default]

Store == [file |-> CONTEXT_FILE, default |-> DEFAULT_CONTEXT]
EmptyDefault == [messages |-> <<>>, chat_history |-> <<>>]

---------------------------------------------------------------------------
(* The operating system seen by main.py.  A path is a sequence of chunks;  *)
(* an absolute path begins with the chunk "/".  <<"/">> is the root.       *)

RootDir == <<"/">>
Home == <<"/", "a">>

\* os.path.isabs
isabs(path) == path # <<>> /\ path[1] = "/"
\* os.path.join(base, rel) for a relative rel
join(base, rel) == base \o rel
\* os.path.dirname of an absolute path
dirname(path) == IF Len(path) <= 1 THEN path ELSE SubSeq(path, 1, Len(path) - 1)

IsDir(f, path) == path \in DOMAIN f /\ f[path] = "dir"
IsFile(f, path) == path \in DOMAIN f /\ f[path] # "dir"
Ancestors(path) == {SubSeq(path, 1, k) : k \in 1..Len(path)}
IsUnder(path, top) ==
    Len(path) >= Len(top) /\ SubSeq(path, 1, Len(top)) = top

\* os.makedirs(d, exist_ok=True): raises when d or an ancestor is a file.
makedirs_ok(f, d) == \A q \in Ancestors(d) : ~IsFile(f, q)
makedirs(f, d) ==
    [q \in (DOMAIN f) \cup Ancestors(d) |-> IF q \in DOMAIN f THEN f[q] ELSE "dir"]
\* open(path, "w").write(content): raises on a directory or a missing parent.
open_w_ok(f, path) == ~IsDir(f, path) /\ IsDir(f, dirname(path))
open_x(f, path, content) ==
    [q \in (DOMAIN f) \cup {path} |-> IF q = path /\ q \notin DOMAIN f THEN content ELSE f[q]]
open_w(f, path, content) ==
    [q \in (DOMAIN f) \cup {path} |-> IF q = path THEN content ELSE f[q]]
\* open(path, "r").read(): raises unless path is a regular file.
open_r_ok(f, path) == IsFile(f, path)
\* rm -rf path, run by the shell
rm_rf(f, path) == [q \in {q \in DOMAIN f : ~IsUnder(q, path)} |-> f[q]]

\* str.startswith("cd ") and str.split(" ", 1)[1] on a command line whose
\* first chunk holds the program name and the blank after it.
never_cd(line) == FALSE
startswith_cd(line) == line # <<>> /\ line[1] = "cd "
split_rest(line) == Tail(line)

\* The directory change of execute_plan, process_ai_response and
\* coffee_shell: the target os.chdir is called with.
cd_target(line, cwd) ==
    LET target_dir == IF split_rest(line) = <<"~">> THEN Home ELSE split_rest(line)
    IN  IF isabs(target_dir) THEN target_dir ELSE join(cwd, target_dir)
\* os.chdir(target); CURRENT_WORKING_DIRECTORY = os.getcwd(): the new value.
\* os.chdir raises (FileNotFoundError, NotADirectoryError) unless target is
\* a directory, and the except clauses leave the variable as it was.
chdir_keep_or_set(line, cwd, f) == cd_target(line, cwd)
change_directory(line, cwd, f) ==
    IF IsDir(f, cd_target(line, cwd)) THEN cd_target(line, cwd) ELSE cwd

---------------------------------------------------------------------------
(* Bounds of the model, and what the user, the remote model and the        *)
(* subprocesses may answer.                                                *)

MaxTurns == 2
MaxRounds == 1
MaxPlanLen == 2

PlanAlphabet == {"ls", "cd_b", "w1", "w2", "wb", "r"}
PlanSeqs ==
    UNION {[1..n -> PlanAlphabet] : n \in 0..MaxPlanLen}
    \cup {<<"w1", "w2", "r">>, <<"w1", "cd_b", "w1">>, <<"zz", "ls">>, <<"7">>}

CmdObj(c) == <<LB, KV("command", c), KV("explanation", <<"e">>), RB>>
PlanObj(ss) == <<LB, KV("plan", ss), RB>>
DoneObj == <<LB, KV("done", <<"true">>), KV("explanation", <<"e">>), RB>>
Fenced(obj) == <<FenceJson>> \o obj \o <<Fence>>

\* Command lines the remote model suggests.
Commands ==
    {<<"ls">>, <<"cd ", "b">>, <<"cd ", "~">>, <<"cd ", "/", "x">>,
     <<"rm -rf ", "/", "a">>}

\* Reply texts of the remote model.
Replies ==
    {PlanObj(ss) : ss \in PlanSeqs}
    \cup {CmdObj(c) : c \in Commands}
    \cup {Fenced(CmdObj(<<"ls">>)),
          CmdObj(<<"0">>),
          <<W("see"), W("[/b]")>>,
          <<W("try"), LB, KV("command", <<"ls">>), RB, W("ok")>>,
          DoneObj,
          <<LB, KV("done", <<"false">>), RB>>,
          <<LB, KV("command", <<"ls">>), KV("plan", <<"w1">>), RB>>,
          <<LB, KV("done", <<"true">>), KV("command", <<"ls">>), RB>>,
          <<LB, KV("done", <<"true">>), KV("plan", <<"w1">>), RB>>,
          <<LB, KV("note", <<"x">>), RB>>,
          <<LB, RB>>,
          <<W("hello")>>,
          <<W("see"), LB, W("x"), RB>>,
          <<FenceJson, LB, W("x"), RB, Fence>>,
          <<Fence, LB, KV("note", <<"x">>), RB, Fence>>,
          <<W("use"), LB, KV("note", <<"x">>), RB, W("quoted_command"), LB, RB>>}

\* Reply texts of the remote model to a troubleshooting prompt.
FixReplies ==
    {CmdObj(<<"ls">>), CmdObj(<<"cd ", "b">>), PlanObj(<<"w1">>), DoneObj,
     <<W("hello")>>}

\* Lines the user types (already stripped).
Lines ==
    {<<>>, <<"exit">>, <<"QUIT">>, <<"clear">>, <<"cls">>, <<"/">>, <<"/", "ls">>,
     <<"/", "cd ", "b">>, <<"cd ", "b">>, <<"cd ", "~">>, <<"cd ", "/", "x">>,
     <<"hello">>, <<"why", "{", "quoted_command", "}">>}

\* str.lower() on the lines that are built-in words.
lower(line) ==
    IF line = <<"QUIT">> THEN <<"quit">> ELSE line

\* A typed line as the text sent to the model and kept in the history.
ChunkTok(c) == IF c = "{" THEN LB ELSE IF c = "}" THEN RB ELSE W(c)
LineText(line) == [i \in 1..Len(line) |-> ChunkTok(line[i])]

\* TROUBLESHOOTING_PROMPT.format(...): prose around a literal JSON template.
TroubleshootPrompt(failed, query) ==
    <<W("A user tried to run")>> \o LineText(failed) \o LineText(query)
    \o <<LB, KV("command", <<"CORRECTED SHELL COMMAND">>),
          KV("explanation", <<"short explanation">>), RB, W("If you cannot")>>

\* What a summarization call can return: prose, or prose quoting JSON.
Summaries == {<<W("It worked")>>, <<W("Ran"), LB, W("quoted_command"), RB>>}
NoOutputSummary == <<W("The command finished with no visible output.")>>
SummaryFailed == <<W("(Could not generate result)")>>
TimeoutMsg == <<W("The command took too long and was stopped.")>>
LaunchFailed == <<W("launch failed")>>

---------------------------------------------------------------------------
(* History: one record per thing the turn did, in order.                   *)

E(ev, kind) ==
    [ev |-> ev, kind |-> kind, cmd |-> <<>>, i |-> 0, ok |-> TRUE, rc |-> 0,
     dir |-> <<>>, p |-> <<>>, to |-> <<>>, c |-> "", txt |-> <<>>, how |-> ""]

\* The add_message call as the history sees it: ok says whether the
\* chat-turn log grew by the entry.
MessageEvent(store, role, content) ==
    [E("add_message", role) EXCEPT
        !.txt = content,
        !.ok = (get_messages(add_message(store, role, content))
                  = KeepLast(Append(get_messages(store),
                                    [role |-> role, content |-> content]),
                             ChatCap))]
CommandEvent(line) == [E("add_system_command", "") EXCEPT !.cmd = line]
\* A directory-change attempt: from dir, aiming at p, which was a directory
\* or not (ok); `to` is the value CURRENT_WORKING_DIRECTORY holds afterwards.
CdEvent(kind, line, cwd, f, after) ==
    [E("cd", kind) EXCEPT
        !.cmd = line, !.dir = cwd, !.p = cd_target(line, cwd),
        !.ok = IsDir(f, cd_target(line, cwd)), !.to = after]

---------------------------------------------------------------------------
(* run_shell_command: the results one call can produce.  summarized says   *)
(* whether get_ai_summary called the remote model.                         *)

\* The dict run_shell_command returns (with the file system it leaves, whether
\* get_ai_summary called the remote model, and how the subprocess ended:
\* "exit", "timeout" or "oserror").
Result(rc, stdout, stderr, summary, f, summarized, how) ==
    [return_code |-> rc, stdout |-> stdout, stderr |-> stderr,
     summary |-> summary, fs |-> f, summarized |-> summarized, how |-> how]

\* A process that ended by itself without printing anything.
Silent(rc, f) == Result(rc, "", <<>>, NoOutputSummary, f, FALSE, "exit")

\* get_ai_summary for a command that printed something
Summarized(rc, f) ==
    {Result(rc, IF rc = 0 THEN "out" ELSE "",
            IF rc = 0 THEN <<>> ELSE <<W("error")>>, sm, f, TRUE, "exit") :
        sm \in Summaries \cup {SummaryFailed}}

\* The two except clauses of run_shell_command: return_code -1, no stdout,
\* the message as stderr and as summary.
ExceptReturnsZero(msg, f, how) == Result(0, "", msg, msg, f, FALSE, how)
ExceptResult(msg, f, how) == Result(-1, "", msg, msg, f, FALSE, how)

run_shell_command(line, cwd, f) ==
    IF ~IsDir(f, cwd)
    THEN {ExceptResult(LaunchFailed, f, "oserror")}      \* except Exception
    ELSE IF line[1] = "rm -rf "
    THEN {Silent(0, rm_rf(f, IF isabs(Tail(line)) THEN Tail(line)
                             ELSE join(cwd, Tail(line))))}
    ELSE IF startswith_cd(line)                     \* cd inside the subshell
    THEN IF IsDir(f, cd_target(line, cwd))
         THEN {Silent(0, f)}
         ELSE Summarized(1, f)
    ELSE {Silent(0, f), Silent(1, f),
          ExceptResult(TimeoutMsg, f, "timeout")}   \* subprocess.TimeoutExpired
         \cup Summarized(0, f) \cup Summarized(1, f)

RunEvents(kind, line, cwd, res, i) ==
    <<[E("run", kind) EXCEPT !.cmd = line, !.rc = res.return_code,
                              !.dir = cwd, !.i = i, !.c = res.stdout,
                              !.txt = res.stderr, !.how = res.how]>>
    \o (IF res.summarized
        THEN <<[E("call", "summary") EXCEPT !.ok = (res.summary # SummaryFailed)]>>
        ELSE <<>>)

---------------------------------------------------------------------------
(* The interactive shell, main.py coffee_shell, and what it calls.         *)

SetStore(store) ==
    /\ CONTEXT_FILE' = store.file
    /\ DEFAULT_CONTEXT' = store.default

\* coffee_shell, lines 427-465: one line read and handled up to the first
\* point where the shell waits again.
ReadLine ==
    /\ pc = "prompt"
    /\ turns < MaxTurns
    /\ \E line \in Lines :
        /\ turns' = turns + 1
        /\ user_query' = line
        /\ rounds' = 0
        /\ UNCHANGED <<fs, ai_out, steps, idx, storeVars, parseVars>>
        /\ IF line = <<>>
           THEN /\ pc' = "prompt"
                /\ trace' = <<E("line", "empty")>>
                /\ UNCHANGED <<CURRENT_WORKING_DIRECTORY, cmd>>
           ELSE IF lower(line) \in {<<"exit">>, <<"quit">>}
           THEN /\ pc' = "exited"
                /\ trace' = <<E("line", "exit"), E("print", "goodbye")>>
                /\ UNCHANGED <<CURRENT_WORKING_DIRECTORY, cmd>>
           ELSE IF lower(line) \in {<<"clear">>, <<"cls">>}
           THEN /\ pc' = "prompt"
                /\ trace' = <<E("line", "clear"), E("os_system", "clear")>>
                /\ UNCHANGED <<CURRENT_WORKING_DIRECTORY, cmd>>
           ELSE IF line[1] = "/"
           THEN /\ pc' = IF Tail(line) # <<>> THEN "confirm_slash" ELSE "prompt"
                /\ cmd' = Tail(line)
                /\ trace' = <<E("line", "slash")>>
                /\ UNCHANGED CURRENT_WORKING_DIRECTORY
           ELSE IF startswith_cd(line)
           THEN /\ pc' = "prompt"
                /\ CURRENT_WORKING_DIRECTORY' =
                       change_directory(line, CURRENT_WORKING_DIRECTORY, fs)
                /\ trace' = <<E("line", "cd"),
                              CdEvent("line", line, CURRENT_WORKING_DIRECTORY, fs,
                                      CURRENT_WORKING_DIRECTORY')>>
                /\ UNCHANGED cmd
           ELSE /\ pc' = "call_groq"
                /\ trace' = <<E("line", "query")>>
                /\ UNCHANGED <<CURRENT_WORKING_DIRECTORY, cmd>>

\* coffee_shell, lines 469-474: KeyboardInterrupt or EOFError at the prompt.
Interrupt ==
    /\ pc = "prompt"
    /\ pc' = "exited"
    /\ trace' = <<E("interrupt", ""), E("print", "goodbye")>>
    /\ UNCHANGED <<CURRENT_WORKING_DIRECTORY, fs, user_query, ai_out, cmd, steps,
                   idx, rounds, turns, storeVars, parseVars>>

\* typer.confirm(text, default=...): "y", "n", or just Enter ("").
Answers == {"y", "n", ""}
confirm_enter_accepts(answer, default) == answer # "n"
confirm(answer, default) == IF answer = "" THEN default ELSE answer = "y"

\* coffee_shell, lines 444-446: the answer to "Run command: ...?".
ConfirmSlash ==
    /\ pc = "confirm_slash"
    /\ \E answer \in Answers :
        /\ pc' = IF confirm(answer, FALSE) THEN "run_slash" ELSE "prompt"
        /\ trace' = Append(trace, [E("confirm", "slash") EXCEPT !.c = answer,
                                      !.cmd = cmd])
    /\ UNCHANGED <<CURRENT_WORKING_DIRECTORY, fs, user_query, ai_out, cmd, steps,
                   idx, rounds, turns, storeVars, parseVars>>

\* coffee_shell, line 445: run_shell_command(command_to_run, ...).
RunSlash ==
    /\ pc = "run_slash"
    /\ \E res \in run_shell_command(cmd, CURRENT_WORKING_DIRECTORY, fs) :
        /\ fs' = res.fs
        /\ trace' = trace \o RunEvents("slash", cmd, CURRENT_WORKING_DIRECTORY, res, 0)
    /\ pc' = "prompt"
    /\ UNCHANGED <<CURRENT_WORKING_DIRECTORY, user_query, ai_out, cmd, steps,
                   idx, rounds, turns, storeVars, parseVars>>

\* call_groq returning None: no API key (lines 395-397), or the request
\* failed (lines 412-414).
CallOutcomes == {<<W("GROQ_API_KEY not set.")>>, <<W("Groq API Error")>>}
\* call_groq(prompt) when the request ends as `out`: the store it leaves and
\* the events it makes.  add_message("user", prompt) is line 410, inside
\* the try, after the reply has been read.
call_groq_records_first(store, prompt, out) ==
    [store |-> add_message(store, "user", prompt),
     evs |-> <<MessageEvent(store, "user", prompt),
               [E("call", "chat") EXCEPT !.ok = (out \notin CallOutcomes),
                                          !.txt = out]>>]
call_groq(store, prompt, out) ==
    [store |-> IF out \in CallOutcomes THEN store
               ELSE add_message(store, "user", prompt),
     evs |-> <<[E("call", "chat") EXCEPT !.ok = (out \notin CallOutcomes),
                                          !.txt = out]>>
             \o (IF out \in CallOutcomes THEN <<>>
                 ELSE <<MessageEvent(store, "user", prompt)>>)]

\* coffee_shell, lines 465-467.
CallGroq ==
    /\ pc = "call_groq"
    /\ \E out \in CallOutcomes \cup Replies :
        LET r == call_groq(Store, LineText(user_query), out)
        IN  /\ SetStore(r.store)
            /\ trace' = trace \o r.evs
            /\ IF out \in CallOutcomes
               THEN pc' = "prompt" /\ UNCHANGED ai_out
               ELSE pc' = "dispatch" /\ ai_out' = out
    /\ UNCHANGED <<CURRENT_WORKING_DIRECTORY, fs, user_query, cmd, steps, idx,
                   rounds, turns, appended, lastOp, parseVars>>

\* process_ai_response, lines 313-391: which branch a parsed reply takes.
\* `not action` holds for None and for the empty object.
Truthy(v) == v \notin {<<>>, <<"false">>, <<"null">>, <<"0">>}
CommandFirstVariant(action) ==
    IF action = None \/ action = <<LB, RB>> THEN "PlainText"
    ELSE IF HasKey(action, "command") THEN "RunCommand"
    ELSE IF HasKey(action, "plan") THEN "Plan"
    ELSE IF HasKey(action, "done") /\ Truthy(Get(action, "done")) THEN "Done"
    ELSE "Unrecognized"
DispatchVariant(action) ==
    IF action = None \/ action = <<LB, RB>> THEN "PlainText"
    ELSE IF HasKey(action, "plan") THEN "Plan"
    ELSE IF HasKey(action, "command") THEN "RunCommand"
    ELSE IF HasKey(action, "done") /\ Truthy(Get(action, "done")) THEN "Done"
    ELSE "Unrecognized"

\* action.get("explanation", default) as text
Explanation(action, default) ==
    IF HasKey(action, "explanation") THEN Get(action, "explanation") ELSE default
WordsText(ws) == [i \in 1..Len(ws) |-> W(ws[i])]

\* A member's value that is a JSON string (not a number, true, false, null).
IsString(v) == v \notin {<<"true">>, <<"false">>, <<"null">>, <<"0">>}

\* console.print(f"[yellow]{ai_out}[/yellow]"): the text is read as console
\* markup, and a closing tag in it that closes no open tag raises MarkupError.
console_print_raises(text) == \E i \in 1..Len(text) : text[i] = W("[/b]")

\* coffee_shell, lines 471-472: an exception that leaves the turn is caught,
\* reported, and the loop goes on.
UnexpectedError(name) == <<E("raise", name), E("print", "unexpected_error")>>

\* process_ai_response up to its first confirmation prompt or its return.
ProcessAiResponse ==
    /\ pc = "dispatch"
    /\ LET action == _extract_json_from_text(ai_out)
           variant == DispatchVariant(action)
           ev == [E("dispatch", variant) EXCEPT !.txt = ai_out]
       IN  CASE variant \in {"PlainText", "Unrecognized"}
                  /\ console_print_raises(ai_out) ->
                  \* MarkupError at line 314 or 390; the message of the error
                  \* quotes the tag, so the print of line 472 raises it again
                  \* and the exception leaves coffee_shell.
                  /\ trace' = trace \o <<ev, E("raise", "MarkupError"),
                                          E("raise", "MarkupError")>>
                  /\ pc' = "crashed"
                  /\ UNCHANGED <<CURRENT_WORKING_DIRECTORY, cmd, steps, idx,
                                 CONTEXT_FILE, DEFAULT_CONTEXT>>
             [] variant \in {"PlainText", "Unrecognized"}
                  /\ ~console_print_raises(ai_out) ->
                  /\ SetStore(add_message(Store, "assistant", ai_out))
                  /\ trace' = trace \o <<ev, MessageEvent(Store, "assistant", ai_out)>>
                  /\ pc' = "prompt"
                  /\ UNCHANGED <<CURRENT_WORKING_DIRECTORY, cmd, steps, idx>>
             [] variant = "Plan"
                  /\ (\E i \in 1..Len(Get(action, "plan")) :
                         StepTable(Get(action, "plan")[i]).kind = "nonobject") ->
                  \* line 323, "command" in step: TypeError for a number
                  /\ trace' = trace \o <<ev>> \o UnexpectedError("TypeError")
                  /\ pc' = "prompt"
                  /\ UNCHANGED <<CURRENT_WORKING_DIRECTORY, cmd, steps, idx,
                                 CONTEXT_FILE, DEFAULT_CONTEXT>>
             [] variant = "Plan"
                  /\ (\A i \in 1..Len(Get(action, "plan")) :
                         StepTable(Get(action, "plan")[i]).kind # "nonobject") ->
                  /\ steps' = Get(action, "plan")
                  /\ idx' = 0
                  /\ trace' = Append(trace, ev)
                  /\ pc' = "confirm_plan"
                  /\ UNCHANGED <<CURRENT_WORKING_DIRECTORY, cmd, CONTEXT_FILE,
                                 DEFAULT_CONTEXT>>
             [] variant = "RunCommand" /\ ~IsString(Get(action, "command")) ->
                  \* line 354, cmd.startswith: AttributeError
                  /\ trace' = trace \o <<ev>> \o UnexpectedError("AttributeError")
                  /\ pc' = "prompt"
                  /\ UNCHANGED <<CURRENT_WORKING_DIRECTORY, cmd, steps, idx,
                                 CONTEXT_FILE, DEFAULT_CONTEXT>>
             [] variant = "RunCommand" /\ IsString(Get(action, "command")) ->
                  /\ cmd' = Get(action, "command")
                  /\ IF startswith_cd(Get(action, "command"))
                     THEN /\ CURRENT_WORKING_DIRECTORY' =
                                 change_directory(Get(action, "command"),
                                                  CURRENT_WORKING_DIRECTORY, fs)
                          /\ trace' = trace \o
                                 <<ev, CdEvent("action", Get(action, "command"),
                                               CURRENT_WORKING_DIRECTORY, fs,
                                               CURRENT_WORKING_DIRECTORY')>>
                          /\ pc' = "prompt"
                     ELSE /\ trace' = Append(trace, ev)
                          /\ pc' = "confirm_cmd"
                          /\ UNCHANGED CURRENT_WORKING_DIRECTORY
                  /\ UNCHANGED <<steps, idx, CONTEXT_FILE, DEFAULT_CONTEXT>>
             [] variant = "Done" ->
                  /\ SetStore(add_message(Store, "assistant",
                         WordsText(Explanation(action, <<"Task completed">>))))
                  /\ trace' = trace \o
                         <<ev, MessageEvent(Store, "assistant",
                                 WordsText(Explanation(action, <<"Task completed">>)))>>
                  /\ pc' = "prompt"
                  /\ UNCHANGED <<CURRENT_WORKING_DIRECTORY, cmd, steps, idx>>
    /\ UNCHANGED <<fs, user_query, ai_out, rounds, turns, appended, lastOp, parseVars>>

\* The history entry process_ai_response records after execute_plan returns.
PlanNote(plan_steps, query) ==
    <<W("Executed plan with"), W(ToString(Len(plan_steps))), W("steps for:")>>
    \o LineText(query)

\* process_ai_response, lines 340-345: the answer to "Execute this plan?",
\* and execute_plan's lines 219-224 when the plan is accepted.
ConfirmPlan ==
    /\ pc = "confirm_plan"
    /\ \E answer \in Answers :
        LET ev == [E("confirm", "plan") EXCEPT
                      !.c = answer, !.dir = CURRENT_WORKING_DIRECTORY]
        IN  IF ~confirm(answer, TRUE)
            THEN /\ pc' = "prompt"
                 /\ trace' = Append(trace, ev)
                 /\ UNCHANGED <<idx, CONTEXT_FILE, DEFAULT_CONTEXT>>
            ELSE IF steps = <<>>
            THEN /\ pc' = "prompt"
                 /\ SetStore(add_message(Store, "assistant", PlanNote(steps, user_query)))
                 /\ trace' = trace \o
                        <<ev, E("print", "no_valid_plan"),
                          MessageEvent(Store, "assistant", PlanNote(steps, user_query))>>
                 /\ UNCHANGED idx
            ELSE /\ pc' = "plan_step"
                 /\ idx' = 1
                 /\ trace' = Append(trace, ev)
                 /\ UNCHANGED <<CONTEXT_FILE, DEFAULT_CONTEXT>>
    /\ UNCHANGED <<CURRENT_WORKING_DIRECTORY, fs, user_query, ai_out, cmd, steps,
                   rounds, turns, appended, lastOp, parseVars>>

\* execute_plan: the directory a step works in is the global as it is now
\* (cwd=CURRENT_WORKING_DIRECTORY, os.path.join(CURRENT_WORKING_DIRECTORY, path)).
plan_time_cwd ==
    LET at == {i \in 1..Len(trace) : trace[i].ev = "confirm" /\ trace[i].kind = "plan"}
    IN  IF at = {} THEN CURRENT_WORKING_DIRECTORY ELSE trace[Max(at)].dir
step_cwd == CURRENT_WORKING_DIRECTORY

\* execute_plan: `break` after a failed step (lines 253-255, 268-270, 283-285).
never_breaks(failed) == FALSE
step_breaks(failed) == failed

\* execute_plan, lines 245-249: a directory change that failed is reported
\* and, like one that worked, followed by `continue`.
cd_failure_breaks(changed) == ~changed
cd_step_breaks(changed) == FALSE

\* The path a write_file / read_file step opens.
step_path(path) == IF isabs(path) THEN path ELSE join(step_cwd, path)

\* execute_plan: one pass of the loop body; leaving the loop prints
\* "Flow completed" and returns to process_ai_response, which records the plan.
PlanStep ==
    /\ pc = "plan_step"
    /\ LET step == StepTable(steps[idx])
           Leave(brk, evs) ==
               IF step_breaks(brk) \/ idx = Len(steps)
               THEN /\ pc' = "prompt"
                    /\ idx' = idx
                    /\ SetStore(add_message(Store, "assistant",
                                            PlanNote(steps, user_query)))
                    /\ trace' = trace \o evs \o
                           <<E("print", "flow_completed"),
                             MessageEvent(Store, "assistant",
                                          PlanNote(steps, user_query))>>
               ELSE /\ pc' = "plan_step"
                    /\ idx' = idx + 1
                    /\ trace' = trace \o evs
                    /\ UNCHANGED <<CONTEXT_FILE, DEFAULT_CONTEXT>>
       IN  CASE step.kind = "command" /\ startswith_cd(step.cmd) ->
                  /\ CURRENT_WORKING_DIRECTORY' =
                         change_directory(step.cmd, CURRENT_WORKING_DIRECTORY, fs)
                  /\ fs' = fs
                  /\ Leave(cd_step_breaks(IsDir(fs, cd_target(step.cmd,
                                                   CURRENT_WORKING_DIRECTORY))),
                           <<[CdEvent("plan", step.cmd,
                                             CURRENT_WORKING_DIRECTORY, fs,
                                             CURRENT_WORKING_DIRECTORY')
                                      EXCEPT !.i = idx]>>)
             [] step.kind = "command" /\ ~startswith_cd(step.cmd) ->
                  \E res \in run_shell_command(step.cmd, step_cwd, fs) :
                      /\ fs' = res.fs
                      /\ UNCHANGED CURRENT_WORKING_DIRECTORY
                      /\ Leave(res.return_code # 0,
                               RunEvents("plan", step.cmd, step_cwd, res, idx)
                               \o (IF res.return_code # 0
                                   THEN <<[E("print", "step_failed") EXCEPT !.i = idx]>>
                                   ELSE <<>>))
             [] step.kind = "write_file" ->
                  LET path == step_path(step.path)
                      made == step.path # NoPath /\ makedirs_ok(fs, dirname(path))
                      done == made /\ open_w_ok(makedirs(fs, dirname(path)), path)
                  IN  /\ fs' = IF done
                               THEN open_w(makedirs(fs, dirname(path)), path, step.content)
                               ELSE IF made THEN makedirs(fs, dirname(path))
                               ELSE fs
                      /\ UNCHANGED CURRENT_WORKING_DIRECTORY
                      /\ Leave(~done,
                               <<[E("write", "plan") EXCEPT
                                     !.i = idx, !.p = path, !.c = step.content,
                                     !.ok = done, !.dir = step_cwd]>>
                               \o (IF ~done
                                   THEN <<[E("print", "write_failed") EXCEPT !.i = idx]>>
                                   ELSE <<>>))
             [] step.kind = "read_file" ->
                  LET path == step_path(step.path)
                      done == step.path # NoPath /\ open_r_ok(fs, path)
                  IN  /\ UNCHANGED <<fs, CURRENT_WORKING_DIRECTORY>>
                      /\ Leave(~done,
                               <<[E("read", "plan") EXCEPT
                                     !.i = idx, !.p = path,
                                     !.c = IF done THEN fs[path] ELSE "",
                                     !.ok = done, !.dir = step_cwd]>>
                               \o (IF ~done
                                   THEN <<[E("print", "read_failed") EXCEPT !.i = idx]>>
                                   ELSE <<>>))
             [] step.kind = "other" ->
                  /\ UNCHANGED <<fs, CURRENT_WORKING_DIRECTORY>>
                  /\ Leave(FALSE, <<[E("skip", "plan") EXCEPT !.i = idx]>>)
    /\ UNCHANGED <<user_query, ai_out, cmd, steps, rounds, turns, appended,
                   lastOp, parseVars>>

\* process_ai_response, lines 373 and 379-381: the answer to "Run this command?".
ConfirmCmd ==
    /\ pc = "confirm_cmd"
    /\ \E answer \in Answers :
        /\ pc' = IF confirm(answer, FALSE) THEN "run_direct" ELSE "prompt"
        /\ trace' = Append(trace, [E("confirm", "cmd") EXCEPT !.c = answer,
                                      !.cmd = cmd])
    /\ UNCHANGED <<CURRENT_WORKING_DIRECTORY, fs, user_query, ai_out, cmd, steps,
                   idx, rounds, turns, storeVars, parseVars>>

\* process_ai_response, line 377: the test that starts troubleshoot_and_retry.
retry_on_any(return_code) == TRUE
needs_troubleshoot(return_code) == return_code # 0

\* process_ai_response, lines 374-378, and troubleshoot_and_retry up to its
\* call of the remote model.
RunDirect ==
    /\ pc = "run_direct"
    /\ \E res \in run_shell_command(cmd, CURRENT_WORKING_DIRECTORY, fs) :
        LET action == _extract_json_from_text(ai_out)
            s1 == add_system_command(Store, user_query,
                      [command |-> cmd,
                       explanation |-> Explanation(action, <<>>)])
            s2 == add_message(s1, "assistant", res.summary)
            evs == RunEvents("direct", cmd, CURRENT_WORKING_DIRECTORY, res, 0)
                   \o <<CommandEvent(cmd), MessageEvent(s1, "assistant", res.summary)>>
        IN  /\ fs' = res.fs
            /\ SetStore(s2)
            /\ IF needs_troubleshoot(res.return_code)
               THEN /\ pc' = "troubleshoot"
                    /\ rounds' = rounds + 1
                    /\ trace' = trace \o evs \o
                           <<[E("troubleshoot", "") EXCEPT
                                 !.cmd = cmd, !.rc = res.return_code]>>
               ELSE /\ pc' = "prompt"
                    /\ rounds' = rounds
                    /\ trace' = trace \o evs
    /\ UNCHANGED <<CURRENT_WORKING_DIRECTORY, user_query, ai_out, cmd, steps, idx,
                   turns, appended, lastOp, parseVars>>

\* troubleshoot_and_retry, line 304, `if ai_suggestion:`: call_groq returned a
\* reply and not None.
always_suggests(out) == TRUE
has_suggestion(out) == out \notin CallOutcomes

\* troubleshoot_and_retry, lines 302-308: the reply of call_groq(prompt), handed
\* to process_ai_response, or None.
Troubleshoot ==
    /\ pc = "troubleshoot"
    /\ \E out \in CallOutcomes \cup {r \in FixReplies : rounds <= MaxRounds} :
        LET r == call_groq(Store, TroubleshootPrompt(cmd, user_query), out)
        IN  /\ SetStore(r.store)
            /\ IF ~has_suggestion(out)
               THEN /\ pc' = "prompt"
                    /\ trace' = trace \o r.evs \o <<E("print", "could_not_fix")>>
                    /\ UNCHANGED ai_out
               ELSE /\ pc' = "dispatch"
                    /\ ai_out' = out
                    /\ trace' = trace \o r.evs
    /\ UNCHANGED <<CURRENT_WORKING_DIRECTORY, fs, user_query, cmd, steps, idx,
                   rounds, turns, appended, lastOp, parseVars>>

---------------------------------------------------------------------------
(* The shell's specification.  The session starts in the home directory    *)
(* with no context file yet (a first run).                                 *)

InitFs == [q \in {RootDir, Home} |-> "dir"]

ParseIdle ==
    /\ ptext = <<>> /\ ppayload = <<>> /\ presult = <<>> /\ pphase = "idle"
StoreFresh ==
    /\ CONTEXT_FILE = MissingFile
    /\ DEFAULT_CONTEXT = EmptyDefault
    /\ appended = [chat_history |-> <<>>, messages |-> <<>>]
    /\ lastOp = [op |-> "none", did |-> FALSE]

Init ==
    /\ ParseIdle
    /\ StoreFresh
    /\ pc = "prompt"
    /\ CURRENT_WORKING_DIRECTORY = Home
    /\ fs = InitFs
    /\ user_query = <<>>
    /\ ai_out = <<>>
    /\ cmd = <<>>
    /\ steps = <<>>
    /\ idx = 0
    /\ rounds = 0
    /\ turns = 0
    /\ trace = <<>>

Next ==
    \/ ReadLine
    \/ Interrupt
    \/ ConfirmSlash
    \/ RunSlash
    \/ CallGroq
    \/ ProcessAiResponse
    \/ ConfirmPlan
    \/ PlanStep
    \/ ConfirmCmd
    \/ RunDirect
    \/ Troubleshoot

Spec == Init /\ [][Next]_vars

---------------------------------------------------------------------------
(* Properties of the shell.  `trace` is the record of what the current     *)
(* turn has done so far, in order; the properties read it.                 *)

Ix == 1..Len(trace)
IsStep(e) == e.ev \in {"run", "write", "read", "skip", "cd"} /\ e.kind = "plan"
StepEvents == SelectSeq(trace, IsStep)
Failed(e) ==
    \/ e.ev = "run" /\ e.rc # 0
    \/ e.ev \in {"write", "read"} /\ ~e.ok
FailurePrint(e) ==
    IF e.ev = "run" THEN "step_failed"
    ELSE IF e.ev = "write" THEN "write_failed" ELSE "read_failed"
PlanOver == \E k \in Ix : trace[k].ev = "print" /\ trace[k].kind = "flow_completed"
HasEffect(e) == e.ev \in {"run", "write", "read", "cd"}

\* C1: an accepted plan attempts its steps in order, one after the other;
\* the first failing command, write or read is reported and is the last
\* thing the plan does: no later step is attempted and nothing runs, is
\* written, is read or changes directory after it.  A plan with no failing
\* step attempts all of its steps.
C1_PlanFailFast ==
    /\ \A j \in 1..Len(StepEvents) : StepEvents[j].i = j
    /\ Len(StepEvents) <= Len(steps)
    /\ \A k \in Ix :
          IsStep(trace[k]) /\ Failed(trace[k]) =>
              /\ \A m \in Ix : m > k => ~HasEffect(trace[m]) /\ ~IsStep(trace[m])
              /\ \E m \in Ix : /\ m > k
                                /\ trace[m].ev = "print"
                                /\ trace[m].kind = FailurePrint(trace[k])
                                /\ trace[m].i = trace[k].i
              /\ pc = "prompt"
    /\ PlanOver /\ Len(StepEvents) > 0 =>
          \/ Len(StepEvents) = Len(steps)
          \/ Failed(StepEvents[Len(StepEvents)])

\* A plan of two steps or more whose first step failed, and which is over.
C1_Witness ==
    /\ PlanOver
    /\ Len(steps) >= 2
    /\ Len(StepEvents) = 1
    /\ Failed(StepEvents[1])

\* C2: nothing is run without the user's acceptance.  A command of a
\* RunCommand reply, and a command typed after a slash, runs only right
\* after the user answered "y" to the prompt for that very command; a plan's
\* steps run only after the plan was accepted.  A RunCommand that is
\* declined (by "n" or by the bare Enter, the default) runs nothing and
\* records nothing: the turn ends there.
C2_ConfirmationGate ==
    /\ \A k \in Ix :
          trace[k].ev = "run" /\ trace[k].kind \in {"direct", "slash"} =>
              /\ k > 1
              /\ trace[k-1].ev = "confirm"
              /\ trace[k-1].kind = (IF trace[k].kind = "direct" THEN "cmd" ELSE "slash")
              /\ trace[k-1].c = "y"
              /\ trace[k-1].cmd = trace[k].cmd
    /\ \A k \in Ix :
          IsStep(trace[k]) =>
              \E j \in 1..(k-1) :
                  /\ trace[j].ev = "confirm" /\ trace[j].kind = "plan"
                  /\ trace[j].c \in {"y", ""}
                  /\ \A m \in (j+1)..(k-1) :
                        IsStep(trace[m]) \/ trace[m].ev \in {"call", "print"}
    /\ \A k \in Ix :
          trace[k].ev = "confirm" /\ trace[k].kind = "cmd" /\ trace[k].c # "y" =>
              k = Len(trace) /\ pc = "prompt"

\* A command proposed by a troubleshooting round has been run, after "y".
C2_Witness ==
    \E t, k \in Ix :
        /\ t < k
        /\ trace[t].ev = "troubleshoot"
        /\ trace[k].ev = "run" /\ trace[k].kind = "direct"

\* The events that belong to one run of a command: the run itself, the
\* summarisation call, and the two history entries.
RunTail(e) == e.ev \in {"call", "add_system_command", "add_message"}

\* C3: a troubleshooting round starts exactly when a confirmed RunCommand has
\* been run and returned a non-zero code: then one round starts for it, and
\* none starts after a run that returned zero, nor after a failing plan
\* step, a failing slash command or a failed directory change.
C3_TroubleshootExactly ==
    /\ \A t \in Ix :
          trace[t].ev = "troubleshoot" =>
              \E k \in 1..(t-1) :
                  /\ trace[k].ev = "run" /\ trace[k].kind = "direct"
                  /\ trace[k].rc # 0
                  /\ trace[k].cmd = trace[t].cmd
                  /\ \A m \in (k+1)..(t-1) : RunTail(trace[m])
    /\ \A k \in Ix :
          trace[k].ev = "run" /\ trace[k].kind = "direct" /\ trace[k].rc # 0 =>
              \E t \in Ix :
                  /\ t > k
                  /\ trace[t].ev = "troubleshoot"
                  /\ \A m \in (k+1)..(t-1) : RunTail(trace[m])
    /\ \A k \in Ix :
          trace[k].ev = "run" /\ trace[k].kind = "direct" /\ trace[k].rc = 0 =>
              /\ pc = "prompt"
              /\ \A m \in Ix : m > k => RunTail(trace[m])

\* A command failed, a round proposed another one, and that one succeeded.
C3_Witness ==
    \E k, t, m \in Ix :
        /\ k < t /\ t < m
        /\ trace[k].ev = "run" /\ trace[k].kind = "direct" /\ trace[k].rc # 0
        /\ trace[t].ev = "troubleshoot"
        /\ trace[m].ev = "run" /\ trace[m].kind = "direct" /\ trace[m].rc = 0

\* What the priority rule of the reply's keys prescribes for a parsed object.
ByPriority(action) ==
    IF HasKey(action, "plan") THEN "Plan"
    ELSE IF HasKey(action, "command") THEN "RunCommand"
    ELSE IF HasKey(action, "done") /\ Truthy(Get(action, "done")) THEN "Done"
    ELSE "Unrecognized"

\* What the dispatched variant does first (or the error that stops it: a
\* step or a command of the wrong JSON type, a text the console rejects).
FollowsVariant(k) ==
    k < Len(trace) =>
        CASE trace[k].kind = "Plan" ->
                 \/ trace[k+1].ev = "confirm" /\ trace[k+1].kind = "plan"
                 \/ trace[k+1].ev = "raise" /\ trace[k+1].kind = "TypeError"
          [] trace[k].kind = "RunCommand" ->
                 \/ trace[k+1].ev = "confirm" /\ trace[k+1].kind = "cmd"
                 \/ trace[k+1].ev = "cd" /\ trace[k+1].kind = "action"
                 \/ trace[k+1].ev = "raise" /\ trace[k+1].kind = "AttributeError"
          [] OTHER ->
                 \/ trace[k+1].ev = "add_message" /\ trace[k+1].kind = "assistant"
                 \/ trace[k+1].ev = "raise" /\ trace[k+1].kind = "MarkupError"

\* C5 as the specification states it: a reply that parses to an object is
\* dispatched as exactly one variant, a plan before a command before a true
\* done, and every other object is Unrecognized.
C5_AsStated ==
    \A k \in Ix :
        trace[k].ev = "dispatch" /\ _extract_json_from_text(trace[k].txt) # None =>
            trace[k].kind = ByPriority(_extract_json_from_text(trace[k].txt))

\* C5, amended: a reply that parses to a non-empty object is dispatched as
\* exactly one variant, a plan before a command before a true done, every
\* other non-empty object being Unrecognized; the empty object is handled
\* as plain text.  Each reply received is dispatched once, and the variant
\* decides what is done next.
C5_DispatchPriority ==
    /\ \A k \in Ix :
          trace[k].ev = "dispatch" /\ _extract_json_from_text(trace[k].txt) # None =>
              /\ trace[k].kind =
                     (IF _extract_json_from_text(trace[k].txt) = <<LB, RB>>
                      THEN "PlainText"
                      ELSE ByPriority(_extract_json_from_text(trace[k].txt)))
              /\ FollowsVariant(k)
    /\ pc # "dispatch" =>
          Cardinality({k \in Ix : trace[k].ev = "dispatch"})
            = Cardinality({k \in Ix : /\ trace[k].ev = "call"
                                       /\ trace[k].kind = "chat"
                                       /\ trace[k].ok})

\* A reply with both a plan and a command key was dispatched as a plan, and
\* the plan was put to the user.
C5_Witness ==
    \E k \in Ix :
        /\ trace[k].ev = "dispatch"
        /\ HasKey(_extract_json_from_text(trace[k].txt), "plan")
        /\ HasKey(_extract_json_from_text(trace[k].txt), "command")
        /\ trace[k].kind = "Plan"
        /\ k < Len(trace)

\* C7 as the specification states it: a reply that is plain text or an
\* Unrecognized object is recorded, as received, as an assistant entry of
\* the chat history, and nothing else happens: nothing runs, no file is
\* written or read, the directory stays.
C7_PlainTextRecorded ==
    \A k \in Ix :
        trace[k].ev = "dispatch" /\ trace[k].kind \in {"PlainText", "Unrecognized"} =>
            /\ k + 1 = Len(trace)
            /\ trace[k+1].ev = "add_message"
            /\ trace[k+1].kind = "assistant"
            /\ trace[k+1].txt = trace[k].txt
            /\ trace[k+1].ok
            /\ pc = "prompt"

CdEvents == {k \in Ix : trace[k].ev = "cd"}

\* C8 as the specification states it: the working directory is, in every
\* reachable state, an absolute path of an existing directory, and a
\* directory change either succeeds and sets it or fails and leaves it.
C8_AsStated ==
    /\ isabs(CURRENT_WORKING_DIRECTORY)
    /\ IsDir(fs, CURRENT_WORKING_DIRECTORY)
    /\ \A k \in CdEvents :
          trace[k].to = (IF trace[k].ok THEN trace[k].p ELSE trace[k].dir)

\* A step that changes the working directory is a successful directory
\* change and touches no file; a step after which the working directory no
\* longer exists has run a command.
CwdStep ==
    /\ (CURRENT_WORKING_DIRECTORY' # CURRENT_WORKING_DIRECTORY) =>
          (/\ IsDir(fs, CURRENT_WORKING_DIRECTORY')
           /\ fs' = fs
           /\ \E k \in 1..Len(trace') :
                 /\ trace'[k].ev = "cd" /\ trace'[k].ok
                 /\ trace'[k].to = CURRENT_WORKING_DIRECTORY')
    /\ (IsDir(fs, CURRENT_WORKING_DIRECTORY)
           /\ ~IsDir(fs', CURRENT_WORKING_DIRECTORY')) =>
          (\E k \in 1..Len(trace') : trace'[k].ev = "run")

\* C8, amended: the working directory is always an absolute path; every
\* directory change, typed, proposed by a reply or met as a plan step,
\* either aims at an existing directory and sets the working directory to
\* that resolved absolute path, or fails and leaves it as it was; the
\* working directory names an existing directory as long as no command that
\* was run has removed it.
C8_WorkingDirectory ==
    /\ [](/\ isabs(CURRENT_WORKING_DIRECTORY)
          /\ \A k \in CdEvents :
                /\ isabs(trace[k].p)
                /\ trace[k].to = (IF trace[k].ok THEN trace[k].p ELSE trace[k].dir))
    /\ [][CwdStep]_vars

\* An earlier directory change succeeded, so the working directory is no
\* longer where the session started, and a later one failed and left it.
C8_Witness ==
    \E k \in CdEvents :
        /\ ~trace[k].ok
        /\ trace[k].dir # Home
        /\ trace[k].to = trace[k].dir
        /\ CURRENT_WORKING_DIRECTORY = trace[k].dir

\* The directory a plan's step at position k of the trace has to work in:
\* where the latest successful directory change of the plan went, or, before
\* any, the working directory at the moment the plan was accepted.
PlanConfirms == {j \in Ix : trace[j].ev = "confirm" /\ trace[j].kind = "plan"}
DirAt(k) ==
    LET moved == {j \in 1..(k-1) : IsStep(trace[j]) /\ trace[j].ev = "cd" /\ trace[j].ok}
    IN  IF moved # {} THEN trace[Max(moved)].p
        ELSE trace[Max(PlanConfirms)].dir

\* C9: every step of a plan works in the working directory as it is when the
\* step is reached: a command step runs there, a relative path of a write or
\* a read is resolved against it; so a successful directory change inside
\* the plan moves the steps after it and none before it.
C9_StepUsesCurrentDirectory ==
    \A k \in Ix :
        IsStep(trace[k]) /\ trace[k].ev \in {"run", "write", "read"} =>
            /\ trace[k].dir = DirAt(k)
            /\ (trace[k].ev \in {"write", "read"} =>
                   trace[k].p = (IF isabs(StepTable(steps[trace[k].i]).path)
                                 THEN StepTable(steps[trace[k].i]).path
                                 ELSE join(DirAt(k), StepTable(steps[trace[k].i]).path)))

\* The same relative path was written before and after a successful
\* directory change of the plan.
C9_Witness ==
    \E i, j, k \in Ix :
        /\ i < j /\ j < k
        /\ IsStep(trace[i]) /\ trace[i].ev = "write" /\ trace[i].ok
        /\ IsStep(trace[j]) /\ trace[j].ev = "cd" /\ trace[j].ok
        /\ IsStep(trace[k]) /\ trace[k].ev = "write" /\ trace[k].ok
        /\ trace[i].p # trace[k].p

\* The plan at hand writes one path, once or several times, and then reads it.
WriteReadPlan ==
    /\ Len(steps) >= 2
    /\ StepTable(steps[Len(steps)]).kind = "read_file"
    /\ \A j \in 1..(Len(steps) - 1) :
          /\ StepTable(steps[j]).kind = "write_file"
          /\ StepTable(steps[j]).path = StepTable(steps[Len(steps)]).path
LastContent == StepTable(steps[Len(steps) - 1]).content
ReadGot(content) ==
    \E k \in Ix : /\ IsStep(trace[k]) /\ trace[k].ev = "read"
                  /\ trace[k].ok /\ trace[k].c = content
NoRunBetween(i, k) == \A m \in (i+1)..(k-1) : trace[m].ev # "run"

---------------------------------------------------------------------------
(* The context store on its own: any run of add_message and                *)
(* add_system_command, read back by get_messages / get_recent_commands,    *)
(* over processes that start and end.  The file a first process finds is   *)
(* missing, unparseable, lacks one of its keys, or was left by earlier     *)
(* runs; `appended` lists every entry ever appended, those included.       *)

MaxChatAdds == 12
MaxCmdAdds == 7

ShellIdle ==
    /\ pc = "prompt"
    /\ CURRENT_WORKING_DIRECTORY = Home
    /\ fs = InitFs
    /\ user_query = <<>> /\ ai_out = <<>> /\ cmd = <<>> /\ steps = <<>>
    /\ idx = 0 /\ rounds = 0 /\ turns = 0
    /\ trace = <<>>

OldChat(n) == [i \in 1..n |-> [role |-> "user", content |-> <<W("old"), W(ToString(i))>>]]
OldCommands(n) ==
    [i \in 1..n |-> [user_query |-> <<"old">>, command |-> <<"ls">>,
                     explanation |-> <<ToString(i)>>]]
StartFiles ==
    {MissingFile, GarbageFile,
     FileRecord(<<>>, <<>>),
     FileRecord(OldCommands(CmdCap), OldChat(ChatCap)),
     [FileRecord(OldCommands(2), <<>>) EXCEPT !.has = {"messages"}],
     [FileRecord(<<>>, OldChat(3)) EXCEPT !.has = {"chat_history"}]}

InitStore ==
    /\ ParseIdle
    /\ ShellIdle
    /\ CONTEXT_FILE \in StartFiles
    /\ DEFAULT_CONTEXT = EmptyDefault
    /\ appended = [chat_history |-> get_messages(Store),
                   messages |-> get_recent_commands(Store)]
    /\ lastOp = [op |-> "none", did |-> FALSE]

\* The texts handed to add_message as the n-th turn: a fresh plain sentence
\* (every third one in braces), or a command object, which add_message skips.
RoleOf(n) == IF n % 2 = 1 THEN "user" ELSE "assistant"
Contents(n) ==
    {IF n % 3 = 0 THEN <<LB, W("turn"), W(ToString(n)), RB>>
                  ELSE <<W("turn"), W(ToString(n))>>,
     CmdObj(<<"ls">>)}

\* The call appends an entry: it neither skips the text nor fails to load.
Loads == ~load_context(CONTEXT_FILE, DEFAULT_CONTEXT).raised
Appends(content) == ~is_json_command(content) /\ Loads

\* add_message(role, content)
AddMessageUpTo(n) ==
    /\ Len(appended.chat_history) < n
    /\ \E content \in Contents(Len(appended.chat_history) + 1) :
       LET role == RoleOf(Len(appended.chat_history) + 1)
       IN /\ SetStore(add_message(Store, role, content))
          /\ lastOp' = [op |-> "add_message", did |-> Appends(content)]
          /\ appended' = IF Appends(content)
                         THEN [appended EXCEPT !.chat_history =
                                  Append(@, [role |-> role, content |-> content])]
                         ELSE appended
    /\ UNCHANGED <<parseVars, shellVars>>

\* add_system_command(user_query, command_data)
AddSystemCommandUpTo(n) ==
    /\ Len(appended.messages) < n
    /\ LET entry == [user_query |-> <<"q">>, command |-> <<"ls">>,
                     explanation |-> <<ToString(Len(appended.messages) + 1)>>]
       IN  /\ SetStore(add_system_command(Store, entry.user_query,
                  [command |-> entry.command, explanation |-> entry.explanation]))
           /\ lastOp' = [op |-> "add_system_command", did |-> Loads]
           /\ appended' = IF Loads
                          THEN [appended EXCEPT !.messages = Append(@, entry)]
                          ELSE appended
    /\ UNCHANGED <<parseVars, shellVars>>

AddMessage == AddMessageUpTo(MaxChatAdds)
AddSystemCommand == AddSystemCommandUpTo(MaxCmdAdds)

\* get_messages() and get_recent_commands(): a load, nothing is written.
GetLogs ==
    /\ lastOp.op # "load"
    /\ lastOp' = [op |-> "load", did |-> FALSE]
    /\ UNCHANGED <<CONTEXT_FILE, DEFAULT_CONTEXT, appended, parseVars, shellVars>>

\* The process ends and another one imports context_manager afresh.
NewProcess ==
    /\ lastOp.op # "import"
    /\ DEFAULT_CONTEXT' = EmptyDefault
    /\ lastOp' = [op |-> "import", did |-> FALSE]
    /\ UNCHANGED <<CONTEXT_FILE, appended, parseVars, shellVars>>

NextStore ==
    \/ AddMessage
    \/ AddSystemCommand
    \/ GetLogs
    \/ NewProcess

SpecStore == InitStore /\ [][NextStore]_vars

\* lst holds the last n entries of all, in their order (all of them when
\* there are fewer than n).
IsLastOf(lst, all, n) ==
    /\ Len(lst) = (IF Len(all) < n THEN Len(all) ELSE n)
    /\ \A i \in 1..Len(lst) : lst[i] = all[Len(all) - Len(lst) + i]

\* C4: the logs are capped whatever was done: the chat-turn log, as a load
\* returns it, never holds more than 10 entries and the command-audit log
\* never more than 5; and right after an add_message / add_system_command
\* that appended an entry, the log is the last 10 (the last 5) entries
\* appended, in the order they were appended.
C4_HistoryCapped ==
    /\ Len(get_messages(Store)) <= 10
    /\ Len(get_recent_commands(Store)) <= 5
    /\ Len(CONTEXT_FILE.chat_history) <= 10
    /\ Len(CONTEXT_FILE.messages) <= 5
    /\ lastOp.op = "add_message" /\ lastOp.did =>
          IsLastOf(get_messages(Store), appended.chat_history, 10)
    /\ lastOp.op = "add_system_command" /\ lastOp.did =>
          IsLastOf(get_recent_commands(Store), appended.messages, 5)

\* More than 10 turns and more than 5 commands were appended to a store
\* that began without a file, and the latest add_message evicted a turn.
C4_Witness ==
    /\ lastOp.op = "add_message" /\ lastOp.did
    /\ Len(appended.chat_history) > 10
    /\ Len(appended.messages) > 5
    /\ appended.chat_history[1].content = <<W("turn"), W("1")>>
    /\ get_messages(Store)[1] # appended.chat_history[1]

---------------------------------------------------------------------------
(* The response parser on its own: a reply is built from a valid payload,  *)
(* bare or inside a fenced block, with prose before and after it, and      *)
(* _extract_json_from_text is applied to it.                               *)

Payloads ==
    {CmdObj(<<"ls">>), PlanObj(<<"w1", "r">>), DoneObj,
     <<LB, KV("command", <<"ls">>), KV("explanation", <<"e">>), RB>>,
     <<LB, KV("note", <<"x">>), RB>>}

\* Prose: none, plain words, words with braces in them, a second object.
Before ==
    {<<>>, <<W("Here is the command:")>>,
     <<W("the set"), LB, W("x"), RB, W("is small:")>>,
     <<W("instead of"), LB, KV("note", <<"y">>), RB, W("use")>>}
After ==
    {<<>>, <<W("Run it.")>>,
     <<W("where"), LB, W("x"), RB, W("is a set")>>,
     <<W("or else"), LB, KV("note", <<"y">>), RB>>}

Wraps == {"bare", "json", "plain"}
Wrap(kind, obj) ==
    CASE kind = "bare" -> obj
      [] kind = "json" -> <<FenceJson>> \o obj \o <<Fence>>
      [] kind = "plain" -> <<Fence>> \o obj \o <<Fence>>

InitParse ==
    /\ ShellIdle
    /\ StoreFresh
    /\ ppayload \in Payloads
    /\ \E pre \in Before, post \in After, kind \in Wraps :
          ptext = pre \o Wrap(kind, ppayload) \o post
    /\ presult = None
    /\ pphase = "reply"

\* action = _extract_json_from_text(ai_out)
Extract ==
    /\ pphase = "reply"
    /\ presult' = _extract_json_from_text(ptext)
    /\ pphase' = "parsed"
    /\ UNCHANGED <<ptext, ppayload, storeVars, shellVars>>

NextParse == Extract

SpecParse == InitParse /\ [][NextParse]_vars

\* C6: whatever surrounds it (prose, a fenced block with or without a json
\* label, prose with braces or with a second object in it), the parser
\* returns the payload of the reply, identically.
C6_IdenticalPayload ==
    pphase = "parsed" => presult = ppayload

---------------------------------------------------------------------------
(* Properties of the shell's turns.                                        *)

\* The line of this turn is one the shell handles by itself.
BuiltinLine(line) ==
    \/ line = <<>>
    \/ line \in {<<"exit">>, <<"quit">>, <<"QUIT">>, <<"clear">>, <<"cls">>}
    \/ line # <<>> /\ line[1] = "cd "
ThisTurn == trace # <<>> /\ trace[1].ev = "line"
Calls == {k \in Ix : trace[k].ev = "call"}
Records == {k \in Ix : trace[k].ev \in {"add_message", "add_system_command"}}
Runs == {k \in Ix : trace[k].ev = "run"}

\* C11: a turn whose line is empty, exit / quit, clear / cls or begins with
\* "cd " calls the remote model not once, appends to neither log and runs
\* nothing through run_shell_command; it is over at once, and for a "cd "
\* line the working directory is the target as soon as the line is handled,
\* when the target is an existing directory.
C11_BuiltinLines ==
    ThisTurn /\ BuiltinLine(user_query) =>
        /\ Calls = {} /\ Records = {} /\ Runs = {}
        /\ pc \in {"prompt", "exited"}
        /\ (user_query # <<>> /\ user_query[1] = "cd ") =>
              /\ Len(trace) = 2
              /\ trace[2].ev = "cd" /\ trace[2].cmd = user_query
              /\ (IsDir(fs, trace[2].p) => CURRENT_WORKING_DIRECTORY = trace[2].p)

\* A typed cd moved the session into a directory an earlier plan had made,
\* the history of that plan being on file.
C11_Witness ==
    /\ ThisTurn /\ user_query = <<"cd ", "b">>
    /\ CURRENT_WORKING_DIRECTORY = <<"/", "a", "b">>
    /\ CONTEXT_FILE.chat_history # <<>>

\* C12: a turn whose line begins with "/" sends no request to the remote
\* model, neither a chat completion nor a summarization, whether the
\* command is accepted or declined and whatever it prints or returns, and
\* it appends to neither log.
C12_SlashBypassesModel ==
    (ThisTurn /\ user_query # <<>> /\ user_query[1] = "/") =>
        Calls = {} /\ Records = {}

\* The summarization call made for the run at position k, if any.
SummaryCallOf(k) ==
    {m \in Ix : m = k + 1 /\ trace[m].ev = "call" /\ trace[m].kind = "summary"}

---------------------------------------------------------------------------
(* The context store in its surroundings: besides the adds and the loads,  *)
(* clear_messages, the reset command (run by a process of its own), and    *)
(* the file being removed or overwritten from outside while a process      *)
(* runs.  The file found at first may also hold JSON that is no object.    *)

MaxEnvAdds == 2

InitContext ==
    /\ ParseIdle
    /\ ShellIdle
    /\ CONTEXT_FILE \in StartFiles \cup {NonRecordFile}
    /\ DEFAULT_CONTEXT = EmptyDefault
    /\ appended = [chat_history |-> <<>>, messages |-> <<>>]
    /\ lastOp = [op |-> "none", did |-> FALSE]

\* clear_messages()
ClearMessages ==
    /\ lastOp.op # "clear_messages"
    /\ SetStore(clear_messages(Store))
    /\ lastOp' = [op |-> "clear_messages", did |-> FALSE]
    /\ UNCHANGED <<appended, parseVars, shellVars>>

\* main.py reset: save_context of two fresh empty lists.
Reset ==
    /\ lastOp.op # "reset"
    /\ CONTEXT_FILE' = save_context([messages |-> <<>>, chat_history |-> <<>>])
    /\ lastOp' = [op |-> "reset", did |-> FALSE]
    /\ UNCHANGED <<DEFAULT_CONTEXT, appended, parseVars, shellVars>>

\* The file is removed, or overwritten with something unparseable, with
\* JSON that is no object, or with a record of one key only.
FileLost ==
    /\ CONTEXT_FILE.st = "record"
    /\ lastOp.op # "lost"
    /\ CONTEXT_FILE' \in
          {MissingFile, GarbageFile, NonRecordFile,
           [FileRecord(CONTEXT_FILE.messages, <<>>) EXCEPT !.has = {"messages"}],
           [FileRecord(<<>>, CONTEXT_FILE.chat_history) EXCEPT !.has = {"chat_history"}]}
    /\ lastOp' = [op |-> "lost", did |-> FALSE]
    /\ UNCHANGED <<DEFAULT_CONTEXT, appended, parseVars, shellVars>>

AddMessageEnv == AddMessageUpTo(MaxEnvAdds)
AddSystemCommandEnv == AddSystemCommandUpTo(MaxEnvAdds)

NextContext ==
    \/ AddMessageEnv
    \/ AddSystemCommandEnv
    \/ GetLogs
    \/ NewProcess
    \/ ClearMessages
    \/ Reset
    \/ FileLost

SpecContext == InitContext /\ [][NextContext]_vars

\* C14: whatever was done before, a load never raises; on a file that is
\* missing, unparseable or no record it returns two empty lists; on a
\* record that lacks a key it returns an empty list for that key and, for
\* each key present, the stored value.
C14_LoadDefaults ==
    lastOp.op = "load" =>
        /\ ~load_context(CONTEXT_FILE, DEFAULT_CONTEXT).raised
        /\ CONTEXT_FILE.st # "record" =>
              /\ load_context(CONTEXT_FILE, DEFAULT_CONTEXT).messages = <<>>
              /\ load_context(CONTEXT_FILE, DEFAULT_CONTEXT).chat_history = <<>>
        /\ CONTEXT_FILE.st = "record" =>
              /\ load_context(CONTEXT_FILE, DEFAULT_CONTEXT).messages =
                    (IF "messages" \in CONTEXT_FILE.has
                     THEN CONTEXT_FILE.messages ELSE <<>>)
              /\ load_context(CONTEXT_FILE, DEFAULT_CONTEXT).chat_history =
                    (IF "chat_history" \in CONTEXT_FILE.has
                     THEN CONTEXT_FILE.chat_history ELSE <<>>)

Last(lst) == lst[Len(lst)]

\* C15: after a confirmed RunCommand that returned 0, both records are in
\* the history: the newest command-audit entry carries the user's query, the
\* command and its explanation, and the newest chat turn is the assistant's,
\* with the execution summary as its content, whatever the summary says.
C15_BothRecordsMade ==
    \A k \in Runs :
        trace[k].kind = "direct" /\ trace[k].rc = 0 =>
            /\ get_recent_commands(Store) # <<>>
            /\ Last(get_recent_commands(Store)) =
                  [user_query |-> user_query, command |-> trace[k].cmd,
                   explanation |->
                       Explanation(_extract_json_from_text(ai_out), <<>>)]
            /\ \E m \in Ix :
                  /\ m > k
                  /\ trace[m].ev = "add_message" /\ trace[m].kind = "assistant"
                  /\ trace[m].ok
                  /\ get_messages(Store) # <<>>
                  /\ Last(get_messages(Store)) =
                        [role |-> "assistant", content |-> trace[m].txt]

\* C16: once an accepted plan (accepted by "y" or by the bare Enter) has
\* been executed, in full or up to a failed step, exactly one assistant turn
\* has been appended to the chat-turn log, the note with the number of steps
\* of the plan; a declined plan executes no step, touches no file, leaves
\* the directory and records nothing: the turn ends with the answer.
C16_PlanOutcome ==
    \A j \in PlanConfirms :
        /\ (trace[j].c \in {"y", ""} /\ pc = "prompt") =>
              /\ Cardinality({m \in Ix : /\ m > j
                                         /\ trace[m].ev = "add_message"
                                         /\ trace[m].kind = "assistant"
                                         /\ trace[m].ok}) = 1
              /\ Last(trace).ev = "add_message"
              /\ Last(trace).txt = PlanNote(steps, user_query)
              /\ get_messages(Store) # <<>>
              /\ Last(get_messages(Store)) =
                    [role |-> "assistant", content |-> PlanNote(steps, user_query)]
        /\ trace[j].c = "n" =>
              /\ j = Len(trace)
              /\ pc = "prompt"

---------------------------------------------------------------------------
(* Errors and the end of the session.                                      *)

Raised == {k \in Ix : trace[k].ev = "raise"}

\* C17: no error inside a turn ends the session.  An exception that leaves
\* the turn (a command that is not a string, a plan step that is not an
\* object, a text the console cannot print) is reported and the shell is
\* back at its prompt; the session is over only after exit, quit or an
\* interrupt at the prompt, and then the farewell was printed last.
C17_NoErrorEndsSession ==
    /\ pc \in {"prompt", "exited", "confirm_slash", "run_slash", "call_groq",
               "dispatch", "confirm_plan", "plan_step", "confirm_cmd",
               "run_direct", "troubleshoot"}
    /\ Raised # {} =>
          /\ pc = "prompt"
          /\ Last(trace) = E("print", "unexpected_error")
    /\ pc = "exited" =>
          /\ trace[1] \in {E("line", "exit"), E("interrupt", "")}
          /\ Last(trace) = E("print", "goodbye")
          /\ Raised = {}

---------------------------------------------------------------------------
(* The troubleshoot chain of a turn.                                       *)

Rounds == {t \in Ix : trace[t].ev = "troubleshoot"}
NoRoundAfter(j) == \A t \in Rounds : t < j
DispatchedCommand(j) == Get(_extract_json_from_text(trace[j].txt), "command")

---------------------------------------------------------------------------
(* Directory changes inside a plan.                                        *)

PlanCds == {k \in Ix : IsStep(trace[k]) /\ trace[k].ev = "cd"}
CdCommandSteps ==
    {i \in 1..Len(steps) : /\ StepTable(steps[i]).kind = "command"
                           /\ startswith_cd(StepTable(steps[i]).cmd)}

\* C19: a command step of a plan that begins with "cd " is applied by the
\* plan itself: it is never run as a command and nothing is asked about it;
\* the working directory becomes the target when the target is a directory
\* and stays as it was otherwise; and in both cases the plan goes on with
\* the next step, which works in the directory the change left, or, after
\* the last step, completes.
C19_PlanCdContinues ==
    /\ \A k \in Ix :
          trace[k].ev = "run" /\ trace[k].kind = "plan" =>
              /\ ~startswith_cd(trace[k].cmd)
              /\ trace[k].i \notin CdCommandSteps
    /\ PlanConfirms # {} =>
          \A m \in Ix : m > Max(PlanConfirms) => trace[m].ev # "confirm"
    /\ \A k \in PlanCds :
          /\ trace[k].i \in CdCommandSteps
          /\ trace[k].cmd = StepTable(steps[trace[k].i]).cmd
          /\ trace[k].to = (IF trace[k].ok THEN trace[k].p ELSE trace[k].dir)
          /\ IF trace[k].i < Len(steps)
             THEN IF k = Len(trace)
                  THEN /\ pc = "plan_step"
                       /\ idx = trace[k].i + 1
                       /\ CURRENT_WORKING_DIRECTORY = trace[k].to
                  ELSE /\ IsStep(trace[k+1])
                       /\ trace[k+1].i = trace[k].i + 1
                       /\ (trace[k+1].ev \in {"run", "write", "read", "cd"} =>
                              trace[k+1].dir = trace[k].to)
             ELSE /\ k < Len(trace)
                  /\ trace[k+1] = E("print", "flow_completed")

\* A plan whose directory change failed went on: the step after it was
\* attempted in the old directory; and another plan's change succeeded and
\* moved the step after it.
C19_Witness ==
    \E k \in PlanCds :
        /\ ~trace[k].ok
        /\ k < Len(trace)
        /\ IsStep(trace[k+1])
        /\ trace[k+1].ev \in {"run", "write"}
        /\ trace[k+1].dir = trace[k].dir
        /\ trace[k].to = trace[k].dir

---------------------------------------------------------------------------
(* Remote calls that fail.                                                 *)

ChatCalls == {j \in Ix : trace[j].ev = "call" /\ trace[j].kind = "chat"}
FailedCalls == {j \in ChatCalls : ~trace[j].ok}
UserEntries == {m \in Ix : trace[m].ev = "add_message" /\ trace[m].kind = "user"}

\* The steps that report a failed call leave both logs, the working
\* directory and the files as they were.
FailedCallStep ==
    (/\ trace' # trace
     /\ \/ Last(trace').ev = "call" /\ ~Last(trace').ok
        \/ Last(trace') = E("print", "could_not_fix"))
    => UNCHANGED <<CONTEXT_FILE, DEFAULT_CONTEXT, CURRENT_WORKING_DIRECTORY, fs>>

\* C20: a remote call that fails is a no-op for the flow that made it.
\* After a failed main call the turn is over with nothing else done: no
\* entry in either log, nothing dispatched, nothing run, the directory as
\* it was.  A failed call of a troubleshoot round is followed by the
\* diagnostic and nothing else.  The prompt of a call is put into the
\* chat-turn log only by a call that got its reply, right after the reply
\* and before the reply is dispatched or any assistant entry is made.
C20_FailedCallIsNoOp ==
    /\ [](/\ \A j \in FailedCalls :
                /\ pc = "prompt"
                /\ \A m \in Ix : m > j =>
                       /\ m = j + 1
                       /\ j > 2
                       /\ trace[m] = E("print", "could_not_fix")
                /\ j = 2 => trace[1] = E("line", "query")
                /\ j > 2 => /\ Len(trace) = j + 1
                            /\ trace[j-1].ev = "troubleshoot"
          /\ \A m \in UserEntries :
                /\ m - 1 \in ChatCalls \ FailedCalls
                /\ trace[m].txt = (IF m = 3 THEN LineText(user_query)
                                   ELSE TroubleshootPrompt(trace[m-2].cmd, user_query))
                /\ m > 3 => trace[m-2].ev = "troubleshoot"
          /\ \A j \in ChatCalls \ FailedCalls : j + 1 \in UserEntries
          /\ \A a \in Ix :
                (\/ trace[a].ev = "dispatch"
                 \/ trace[a].ev = "add_message" /\ trace[a].kind = "assistant") =>
                    \E j \in ChatCalls \ FailedCalls : j + 1 < a)
    /\ [][FailedCallStep]_vars

\* The main call of the last turn failed, and the log still holds what an
\* earlier turn had recorded.
C20_Witness ==
    /\ FailedCalls = {2}
    /\ Len(trace) = 2
    /\ get_messages(Store) # <<>>
    /\ turns = MaxTurns

---------------------------------------------------------------------------
(* Directory changes on every path that carries a command.                 *)

\* The commands the turn has carried so far, by the path they came on: the
\* typed line, the line after "/", the command of a reply, a plan's step.
CdCarried ==
    {k \in Ix : /\ trace[k].ev \in {"cd", "run"}
                /\ startswith_cd(trace[k].cmd)}

\* C21: on every path that carries a command (a typed line, a line after
\* "/", a RunCommand reply, a step of a plan) a command of the form
\* "cd <target>" is applied to the session: it is never run as a
\* subprocess, and the working directory is the target afterwards when
\* the target is a directory, and what it was when it is not.
C21_CdHandledEverywhere ==
    \A k \in CdCarried :
        /\ trace[k].ev = "cd"
        /\ trace[k].kind \in {"line", "action", "plan"}
        /\ trace[k].to = (IF trace[k].ok THEN trace[k].p ELSE trace[k].dir)

---------------------------------------------------------------------------
(* Clearing the history.                                                   *)

\* C22: right after clear_messages() and right after the reset command,
\* whatever adds and loads came before in the process and whatever the file
\* was when they were made, the file holds an empty command-audit log and
\* an empty chat-turn log, and a load returns two empty lists.
C22_ClearEmpties ==
    lastOp.op \in {"clear_messages", "reset"} =>
        /\ CONTEXT_FILE = FileRecord(<<>>, <<>>)
        /\ ~load_context(CONTEXT_FILE, DEFAULT_CONTEXT).raised
        /\ get_messages(Store) = <<>>
        /\ get_recent_commands(Store) = <<>>

=============================================================================
